---- MODULE Spec2Model ----
(***************************************************************************)
(* Model of the prompt orchestration of huskygpt: ChatgptProxyAPI          *)
(* (sendMessage, sendFileResult, resetParentMessage, run),                 *)
(* HuskyGPTPrompt.generatePrompt and UserOptionsClass.securityPrompt.      *)
(*                                                                         *)
(* A text is a sequence of one-character strings.  An optional value is a  *)
(* sequence of length 0 (undefined) or 1.                                  *)
(***************************************************************************)
EXTENDS Integers, Sequences, FiniteSets, TLC

(***************************************************************************)
(* Bounds of the model.                                                    *)
(***************************************************************************)
\* number of run() calls the driver makes
MaxCalls == 2
\* largest number of code units the segmentation yields for one file
MaxUnits == 2
\* longest text given to the continuation test in SpecFence
MaxTextLen == 7

(***************************************************************************)
(* Characters and texts.                                                   *)
(***************************************************************************)
UpperChars == <<"A","B","C","D","E","F","G","H","I","J","K","L","M",
                "N","O","P","Q","R","S","T","U","V","W","X","Y","Z">>
LowerChars == <<"a","b","c","d","e","f","g","h","i","j","k","l","m",
                "n","o","p","q","r","s","t","u","v","w","x","y","z">>
Digits == {"0","1","2","3","4","5","6","7","8","9"}

Range(f) == {f[i] : i \in DOMAIN f}

\* the 'i' flag of a RegExp: characters are compared up to case
LowerOf == [c \in Range(UpperChars) |->
              LowerChars[CHOOSE i \in 1..26 : UpperChars[i] = c]]

ToLower(c) == IF c \in DOMAIN LowerOf THEN LowerOf[c] ELSE c

\* the class \w of a RegExp
WordChars == Range(UpperChars) \cup Range(LowerChars) \cup Digits \cup {"_"}

IsWordChar(c) == c \in WordChars

\* the backtick character U+0060; a TLA+ string cannot hold it, so it is
\* written "^" (no text of the model uses a circumflex)
Backtick == "^"

\* does the literal pattern pat match s at position i, up to case
MatchAt(s, pat, i) ==
  /\ i >= 1
  /\ i + Len(pat) - 1 <= Len(s)
  /\ \A j \in 1..Len(pat) : ToLower(s[i + j - 1]) = ToLower(pat[j])

\* RegExp(pat, 'gi').test(s) for a literal, non-empty pattern
Contains(s, pat) == \E i \in 1..Len(s) : MatchAt(s, pat, i)

Undefined == <<>>
Some(v) == <<v>>
IsSet(o) == o # <<>>

(***************************************************************************)
(* Program constants.                                                      *)
(***************************************************************************)
continueMessage == <<"c","o","n","t","i","n","u","e">>
REMOVED == <<"R","E","M","O","V","E","D">>
perfectRegex == <<"p","e","r","f","e","c","t","!">>
failedSentinel ==
  <<"[","h","u","s","k","y","g","p","t","]"," ","c","a","l","l"," ",
    "O","p","e","n","A","I"," ","A","P","I"," ","f","a","i","l","e","d","!">>
timeoutMs == 1000 * 60 * 5

\* the task kinds for which HuskyGPTPrompt registers a template
huskyGPTTypeMap == {"review", "test", "commit"}
\* the task kinds for which progress is printed
printTypes == {"review", "test", "commit"}

(***************************************************************************)
(* UserOptionsClass.securityPrompt: prompt.replace(RegExp(regex,'gi'),     *)
(* 'REMOVED').  The configured pattern is a literal text matched up to     *)
(* case; the empty text is "no pattern configured".                        *)
(***************************************************************************)
RECURSIVE ReplaceFrom(_, _, _)
ReplaceFrom(s, pat, i) ==
  IF i > Len(s) THEN <<>>
  ELSE IF MatchAt(s, pat, i)
    THEN REMOVED \o ReplaceFrom(s, pat, i + Len(pat))
    ELSE <<s[i]>> \o ReplaceFrom(s, pat, i + 1)

\* a replace without the 'g' flag: only the leftmost match is replaced
RECURSIVE ReplaceFirstFrom(_, _, _)
ReplaceFirstFrom(s, pat, i) ==
  IF i > Len(s) THEN <<>>
  ELSE IF MatchAt(s, pat, i)
    THEN REMOVED \o SubSeq(s, i + Len(pat), Len(s))
    ELSE <<s[i]>> \o ReplaceFirstFrom(s, pat, i + 1)

securityPromptFirstOnly(regex, prompt) ==
  IF regex = <<>> THEN prompt ELSE ReplaceFirstFrom(prompt, regex, 1)

securityPrompt(regex, prompt) ==
  IF regex = <<>> THEN prompt ELSE ReplaceFrom(prompt, regex, 1)

(***************************************************************************)
(* The continuation test of sendMessage:                                   *)
(*   (text.match(codeBlocksMdSymbolRegex) || []).length % 2 === 1          *)
(* with codeBlocksMdSymbolRegex = /```(\w?)*/g.  match() with the 'g' flag *)
(* scans left to right; a match is three backticks and the word characters *)
(* that follow, and the scan resumes behind the match.                     *)
(***************************************************************************)
RECURSIVE SkipWord(_, _)
SkipWord(s, j) ==
  IF j <= Len(s) /\ IsWordChar(s[j]) THEN SkipWord(s, j + 1) ELSE j

FenceAt(s, i) ==
  /\ i >= 1
  /\ i + 2 <= Len(s)
  /\ s[i] = Backtick /\ s[i + 1] = Backtick /\ s[i + 2] = Backtick

RECURSIVE MatchCountFrom(_, _)
MatchCountFrom(s, i) ==
  IF i + 2 > Len(s) THEN 0
  ELSE IF FenceAt(s, i)
    THEN 1 + MatchCountFrom(s, SkipWord(s, i + 3))
    ELSE MatchCountFrom(s, i + 1)

\* the same regex without the 'g' flag: match() returns the first match only
MatchCountNoGlobal(s) == IF \E i \in 1..Len(s) : FenceAt(s, i) THEN 1 ELSE 0

codeBlocksMdSymbolMatches(s) == MatchCountFrom(s, 1)

\* a sendMessage that never asks for a continuation
needsContinuationNever(text) == FALSE

\* the test with the parity inverted
needsContinuationEven(text) == codeBlocksMdSymbolMatches(text) % 2 = 0

needsContinuation(text) == codeBlocksMdSymbolMatches(text) % 2 = 1


(***************************************************************************)
(* The state.                                                              *)
(***************************************************************************)
\* the run() calls that can be in progress; the sequential driver of Spec
\* makes its calls one after another, all as MainCall
Procs == {"u1", "u2"}
MainCall == "u1"

VARIABLES
  huskyGPTType,   \* userOptions.options.huskyGPTType ("unset" when falsy)
  securityRegex,  \* userOptions.options.securityRegex (<<>> when empty)
  parentMessage,  \* ChatgptProxyAPI.parentMessage, optional ChatMessage
  nextId,         \* the next identifier the remote API hands out
  calls,          \* number of run() calls started so far
  pc,             \* pc[p]: where call p is suspended
  frame,          \* frame[p]: the locals of sendFileResult and sendMessage
  spinner,        \* spinner[p]: the ora indicator of run and of each sendMessage
  result,         \* result[p]: what run() resolved with, optional
  reqs,           \* reqs[p]: the requests call p made to api.sendMessage, in order
  cursor0,        \* cursor0[p]: parentMessage when call p started
  afterReset,     \* afterReset[p]: lastReset when call p started
  lastReset,      \* whether resetParentMessage was the driver's last operation
  probe           \* the text under test in SpecFence

vars == <<huskyGPTType, securityRegex, parentMessage, nextId, calls, pc, frame,
          spinner, result, reqs, cursor0, afterReset, lastReset, probe>>

(***************************************************************************)
(* Inputs: files, templates, replies, configurations.                      *)
(***************************************************************************)
\* the code units pickFunctionOrClassCodeArray extracts; odd units hold the
\* text "key" twice, in two spellings
CodeUnit(k) ==
  IF k % 2 = 1 THEN <<"k","e","y","=","K","e","y">> ELSE <<"f","n","(",")">>

\* a file result is undefined or carries its code units
FileResults ==
  {Undefined} \cup {Some([units |-> [k \in 1..n |-> CodeUnit(k)]]) : n \in 0..MaxUnits}

\* the instruction template readPromptFile loads for a task kind
promptFile(type) ==
  IF type = "review" THEN <<"r","e","v","i","e","w"," ","k","e","y">>
  ELSE IF type = "test" THEN <<"t","e","s","t","s">>
  ELSE <<"d","i","f","f">>

\* the texts the remote API replies with: one without a fence, one with an
\* opening fence that is not closed
ReplyTexts ==
  { <<"P","e","r","f","e","c","t","!">>,
    <<Backtick, Backtick, Backtick, "t","s"," ","a">> }

Configs ==
  { [type |-> "review", regex |-> <<>>],
    [type |-> "test",   regex |-> <<"K","E","Y">>],
    [type |-> "test",   regex |-> <<"e">>],
    [type |-> "other",  regex |-> <<>>],
    [type |-> "unset",  regex |-> <<>>] }

(***************************************************************************)
(* ora indicators.                                                         *)
(***************************************************************************)
NoSpinner == [created |-> FALSE, started |-> FALSE, mark |-> "none", stopped |-> FALSE]

\* get needPrintMessage
needPrintMessage == huskyGPTType \in printTypes

\* an oraStart that starts the indicator whatever the task kind
oraStartAlways(print) ==
  [created |-> TRUE, started |-> TRUE, mark |-> "none", stopped |-> FALSE]

\* oraStart: ora() when nothing is printed, ora({...}).start() otherwise
oraStart(print) ==
  [created |-> TRUE, started |-> print, mark |-> "none", stopped |-> FALSE]

\* isReviewPassed
isReviewPassed(message) ==
  IF huskyGPTType # "review" THEN TRUE ELSE Contains(message, perfectRegex)

(***************************************************************************)
(* HuskyGPTPrompt.generatePrompt: undefined stands for a thrown Error.     *)
(***************************************************************************)
basePrompt(type) == promptFile(type)

\* a generatePrompt without its two checks
generatePromptUnchecked(type, fileResult) ==
  Some(<<basePrompt(type)>> \o
         (IF fileResult = Undefined THEN <<>> ELSE fileResult[1].units))

generatePrompt(type, fileResult) ==
  IF fileResult = Undefined THEN Undefined
  ELSE IF type \notin huskyGPTTypeMap THEN Undefined
  ELSE Some(<<basePrompt(type)>> \o fileResult[1].units)

(***************************************************************************)
(* Requests and replies.                                                   *)
(***************************************************************************)
NoId == 0

\* a prevMessage that names the conversation but not the parent message
ChainOptionsNoParent(message) ==
  [conversationId |-> message.conversationId, parentMessageId |-> NoId]

\* the prevMessage sendFileResult passes for the next code-unit prompt
ChainOptions(message) ==
  [conversationId |-> message.conversationId, parentMessageId |-> message.id]

\* sendOptions of sendMessage: {...prevMessage, timeoutMs, abortSignal, onProgress}
SendOptions(prevMessage) ==
  [conversationId  |-> prevMessage.conversationId,
   parentMessageId |-> prevMessage.parentMessageId,
   timeoutMs       |-> timeoutMs,
   abortSignal     |-> TRUE,
   onProgress      |-> TRUE]

\* the options of the continuation request
ContinueOptions(sendOptions, resMessage) ==
  [sendOptions EXCEPT !.conversationId = resMessage.conversationId,
                      !.parentMessageId = resMessage.id]

\* the merge with the two spreads and the two texts in the other order
MergeSwapped(resMessage, nextMessage) ==
  [f \in DOMAIN resMessage \cup DOMAIN nextMessage |->
     IF f = "text" THEN nextMessage.text \o resMessage.text
     ELSE IF f \in DOMAIN resMessage THEN resMessage[f] ELSE nextMessage[f]]

\* {...resMessage, ...nextMessage, text: resMessage.text + nextMessage.text}
Merge(resMessage, nextMessage) ==
  [f \in DOMAIN resMessage \cup DOMAIN nextMessage |->
     IF f = "text" THEN resMessage.text \o nextMessage.text
     ELSE IF f \in DOMAIN nextMessage THEN nextMessage[f] ELSE resMessage[f]]

\* one call of api.sendMessage: kind is "task", "code" or "continue", k the
\* code-unit prompt it belongs to (0 for the task prompt), prompt the text
\* sendMessage was given, text the text transmitted
Request(kind, k, prompt, text, options) ==
  [kind |-> kind, k |-> k, prompt |-> prompt, text |-> text,
   options |-> options, status |-> "pending", reply |-> Undefined]

\* the ChatMessage the remote API replies with: a fresh id, and the
\* conversation of the request or a new one
RemoteReply(req, text) ==
  [text |-> text,
   id |-> nextId,
   conversationId |->
     IF IsSet(req.options) /\ req.options[1].conversationId # NoId
       THEN req.options[1].conversationId
       ELSE nextId]

Last(log) == log[Len(log)]

Replied(log, m) ==
  [log EXCEPT ![Len(log)] = [@ EXCEPT !.status = "ok", !.reply = Some(m)]]

Failed(log) == [log EXCEPT ![Len(log)] = [@ EXCEPT !.status = "failed"]]


(***************************************************************************)
(* Init: the client after construction, under one of the configurations.   *)
(***************************************************************************)
\* the argument of sendFileResult (<<>> when it was not called, else the
\* one-element sequence holding fileResult), its locals (promptArray,
\* codePrompts, message, messageArray), those of sendMessage (sendOptions,
\* resMessage), the position i of the loop and, as history, the messages
\* sendMessage returned for the code-unit prompts and how sendFileResult
\* settled
NoFrame ==
  [fileResult |-> <<>>, promptArray |-> Undefined, systemPrompt |-> <<>>, codePrompts |-> <<>>,
   i |-> 0, message |-> Undefined, messageArray |-> <<>>,
   resMessage |-> Undefined, sendOptions |-> Undefined,
   returned |-> <<>>, settled |-> "none"]

NoSpinners == [run |-> NoSpinner, review |-> <<>>]

NoProbe == [text |-> <<>>, verdict |-> "none"]

InitClient ==
  /\ parentMessage = Undefined
  /\ nextId = 1
  /\ calls = 0
  /\ pc = [p \in Procs |-> "idle"]
  /\ frame = [p \in Procs |-> NoFrame]
  /\ spinner = [p \in Procs |-> NoSpinners]
  /\ result = [p \in Procs |-> Undefined]
  /\ reqs = [p \in Procs |-> <<>>]
  /\ cursor0 = [p \in Procs |-> Undefined]
  /\ afterReset = [p \in Procs |-> "no"]
  /\ lastReset = "no"

Init ==
  /\ \E c \in Configs : huskyGPTType = c.type /\ securityRegex = c.regex
  /\ InitClient
  /\ probe = NoProbe

Awaiting == {"awaitBootstrap", "awaitCode", "awaitContinue"}
NotRunning == {"idle", "returned", "runRejected", "promptsResolved", "promptsRejected"}

(***************************************************************************)
(* sendMessage(prompt, prevMessage) for code-unit prompt k, up to its      *)
(* await of api.sendMessage: redaction, a new indicator, the options.      *)
(* fr, log and sp are the caller's frame, requests and indicators.         *)
(***************************************************************************)
\* a sendMessage call that leaves the loop position where it was
SendCodeStuck(p, fr, log, sp, k) ==
  LET prompt == fr.codePrompts[k]
      opts == SendOptions(ChainOptions(fr.message[1]))
  IN /\ frame' = [frame EXCEPT ![p] =
                    [fr EXCEPT !.sendOptions = Some(opts),
                               !.resMessage = Undefined]]
     /\ reqs' = [reqs EXCEPT ![p] =
                   Append(log, Request("code", k, prompt,
                                       securityPrompt(securityRegex, prompt),
                                       Some(opts)))]
     /\ spinner' = [spinner EXCEPT ![p] =
                      [sp EXCEPT !.review = Append(@, oraStart(needPrintMessage))]]
     /\ pc' = [pc EXCEPT ![p] = "awaitCode"]

SendCode(p, fr, log, sp, k) ==
  LET prompt == fr.codePrompts[k]
      opts == SendOptions(ChainOptions(fr.message[1]))
  IN /\ frame' = [frame EXCEPT ![p] =
                    [fr EXCEPT !.i = k, !.sendOptions = Some(opts),
                               !.resMessage = Undefined]]
     /\ reqs' = [reqs EXCEPT ![p] =
                   Append(log, Request("code", k, prompt,
                                       securityPrompt(securityRegex, prompt),
                                       Some(opts)))]
     /\ spinner' = [spinner EXCEPT ![p] =
                      [sp EXCEPT !.review = Append(@, oraStart(needPrintMessage))]]
     /\ pc' = [pc EXCEPT ![p] = "awaitCode"]

(***************************************************************************)
(* The loop of sendFileResult from the head of an iteration: the next      *)
(* code-unit prompt is sent, or messageArray is returned.                  *)
(***************************************************************************)
Loop(p, fr, log, sp) ==
  IF fr.i < Len(fr.codePrompts)
    THEN SendCode(p, fr, log, sp, fr.i + 1)
    ELSE /\ frame' = [frame EXCEPT ![p] = [fr EXCEPT !.settled = "resolved"]]
         /\ reqs' = [reqs EXCEPT ![p] = log]
         /\ spinner' = [spinner EXCEPT ![p] = sp]
         /\ pc' = [pc EXCEPT ![p] = "sfrResolved"]

(***************************************************************************)
(* sendMessage from its last reply on (the indicator is marked, resMessage *)
(* returned), then the rest of the loop body: message, messageArray and    *)
(* this.parentMessage are assigned.                                        *)
(***************************************************************************)
MarkReview(sp, passed) ==
  [sp EXCEPT !.review[Len(sp.review)] =
     [@ EXCEPT !.mark = IF passed THEN "succeed" ELSE "fail"]]

\* a loop body that puts each new text in front of the collected ones
FinishSendUnshift(p, fr, log, sp, m) ==
  /\ parentMessage' = Some(m)
  /\ Loop(p, [fr EXCEPT !.message = Some(m),
                        !.messageArray = <<m.text>> \o @,
                        !.returned = Append(@, m)],
          log, MarkReview(sp, isReviewPassed(m.text)))

FinishSend(p, fr, log, sp, m) ==
  /\ parentMessage' = Some(m)
  /\ Loop(p, [fr EXCEPT !.message = Some(m),
                        !.messageArray = Append(@, m.text),
                        !.returned = Append(@, m)],
          log, MarkReview(sp, isReviewPassed(m.text)))

(***************************************************************************)
(* run(fileResult) up to the first await of sendFileResult.                *)
(***************************************************************************)
\* the same test made on promptArray instead of codePrompts
nothingToSendWrong(promptArray) == Len(promptArray) = 0

\* const [systemPrompt, ...codePrompts] = promptArray;
\* if (!codePrompts.length) return []
nothingToSend(promptArray) == Len(Tail(promptArray)) = 0

StartRun(p, fileResult) ==
  /\ pc[p] \in NotRunning
  /\ calls < MaxCalls
  /\ calls' = calls + 1
  /\ result' = [result EXCEPT ![p] = Undefined]
  /\ cursor0' = [cursor0 EXCEPT ![p] = parentMessage]
  /\ afterReset' = [afterReset EXCEPT ![p] = lastReset]
  /\ lastReset' = "no"
  /\ UNCHANGED <<huskyGPTType, securityRegex, nextId, probe>>
  /\ IF huskyGPTType = "unset"
       THEN \* the getter huskyGPTType throws while the indicator text is built
            /\ pc' = [pc EXCEPT ![p] = "runRejected"]
            /\ frame' = [frame EXCEPT ![p] = NoFrame]
            /\ spinner' = [spinner EXCEPT ![p] = NoSpinners]
            /\ reqs' = [reqs EXCEPT ![p] = <<>>]
            /\ UNCHANGED parentMessage
       ELSE
         LET sp == [run |-> oraStart(needPrintMessage), review |-> <<>>]
             promptArray == generatePrompt(huskyGPTType, fileResult)
         IN IF promptArray = Undefined
              THEN /\ pc' = [pc EXCEPT ![p] = "sfrRejected"]
                   /\ frame' = [frame EXCEPT ![p] = [NoFrame EXCEPT !.fileResult = <<fileResult>>,
                                                    !.settled = "rejected"]]
                   /\ spinner' = [spinner EXCEPT ![p] = sp]
                   /\ reqs' = [reqs EXCEPT ![p] = <<>>]
                   /\ UNCHANGED parentMessage
              ELSE
                LET fr == [NoFrame EXCEPT !.fileResult = <<fileResult>>,
                                          !.promptArray = promptArray,
                                          !.systemPrompt = Head(promptArray[1]),
                                          !.codePrompts = Tail(promptArray[1])]
                IN /\ UNCHANGED parentMessage
                   /\ IF nothingToSend(promptArray[1])
                        THEN /\ pc' = [pc EXCEPT ![p] = "sfrResolved"]
                             /\ frame' = [frame EXCEPT ![p] = [fr EXCEPT !.settled = "resolved"]]
                             /\ spinner' = [spinner EXCEPT ![p] = sp]
                             /\ reqs' = [reqs EXCEPT ![p] = <<>>]
                        ELSE IF IsSet(parentMessage)
                          THEN Loop(p, [fr EXCEPT !.message = parentMessage], <<>>, sp)
                          ELSE \* sendMessage(systemPrompt): sent directly
                               /\ pc' = [pc EXCEPT ![p] = "awaitBootstrap"]
                               /\ frame' = [frame EXCEPT ![p] = fr]
                               /\ spinner' = [spinner EXCEPT ![p] = sp]
                               /\ reqs' = [reqs EXCEPT ![p] =
                                    <<Request("task", 0, fr.systemPrompt,
                                              securityPrompt(securityRegex, fr.systemPrompt),
                                              Undefined)>>]

(***************************************************************************)
(* The replies of the remote API.                                          *)
(***************************************************************************)
\* a bootstrap that also retains the reply to the task prompt as cursor
ReplyBootstrapRetains(p, text) ==
  /\ pc[p] = "awaitBootstrap"
  /\ LET m == RemoteReply(Last(reqs[p]), text)
     IN /\ Loop(p, [frame[p] EXCEPT !.message = Some(m)],
                Replied(reqs[p], m), spinner[p])
        /\ parentMessage' = Some(m)
  /\ nextId' = nextId + 1
  /\ UNCHANGED <<huskyGPTType, securityRegex, calls, result,
                 cursor0, afterReset, lastReset, probe>>

\* the reply to the task prompt: message = it, and the loop is entered
ReplyBootstrap(p, text) ==
  /\ pc[p] = "awaitBootstrap"
  /\ LET m == RemoteReply(Last(reqs[p]), text)
     IN Loop(p, [frame[p] EXCEPT !.message = Some(m)],
             Replied(reqs[p], m), spinner[p])
  /\ nextId' = nextId + 1
  /\ UNCHANGED <<huskyGPTType, securityRegex, parentMessage, calls, result,
                 cursor0, afterReset, lastReset, probe>>

\* the reply to a code-unit prompt: the continuation test
ReplyCode(p, text) ==
  /\ pc[p] = "awaitCode"
  /\ LET resMessage == RemoteReply(Last(reqs[p]), text)
         log == Replied(reqs[p], resMessage)
     IN IF needsContinuation(resMessage.text)
          THEN /\ frame' = [frame EXCEPT ![p].resMessage = Some(resMessage)]
               /\ reqs' = [reqs EXCEPT ![p] =
                    Append(log, Request("continue", frame[p].i, continueMessage,
                                        continueMessage,
                                        Some(ContinueOptions(frame[p].sendOptions[1],
                                                             resMessage))))]
               /\ pc' = [pc EXCEPT ![p] = "awaitContinue"]
               /\ UNCHANGED <<parentMessage, spinner>>
          ELSE FinishSend(p, frame[p], log, spinner[p], resMessage)
  /\ nextId' = nextId + 1
  /\ UNCHANGED <<huskyGPTType, securityRegex, calls, result, cursor0,
                 afterReset, lastReset, probe>>

\* a sendMessage that repeats the fence test on the merged text and asks
\* for a continuation as long as it is odd
ReplyContinueAgain(p, text) ==
  /\ pc[p] = "awaitContinue"
  /\ LET nextMessage == RemoteReply(Last(reqs[p]), text)
         merged == Merge(frame[p].resMessage[1], nextMessage)
         log == Replied(reqs[p], nextMessage)
     IN IF needsContinuation(merged.text)
          THEN /\ frame' = [frame EXCEPT ![p].resMessage = Some(merged)]
               /\ reqs' = [reqs EXCEPT ![p] =
                    Append(log, Request("continue", frame[p].i, continueMessage,
                                        continueMessage,
                                        Some(ContinueOptions(frame[p].sendOptions[1],
                                                             merged))))]
               /\ UNCHANGED <<pc, parentMessage, spinner>>
          ELSE FinishSend(p, frame[p], log, spinner[p], merged)
  /\ nextId' = nextId + 1
  /\ UNCHANGED <<huskyGPTType, securityRegex, calls, result, cursor0,
                 afterReset, lastReset, probe>>

\* the reply to "continue": the merge
ReplyContinue(p, text) ==
  /\ pc[p] = "awaitContinue"
  /\ LET nextMessage == RemoteReply(Last(reqs[p]), text)
     IN FinishSend(p, frame[p], Replied(reqs[p], nextMessage), spinner[p],
                   Merge(frame[p].resMessage[1], nextMessage))
  /\ nextId' = nextId + 1
  /\ UNCHANGED <<huskyGPTType, securityRegex, calls, result, cursor0,
                 afterReset, lastReset, probe>>

\* api.sendMessage rejects (timeout, abort, remote error): nothing catches
\* it in sendMessage or sendFileResult
FailRequest(p) ==
  /\ pc[p] \in Awaiting
  /\ reqs' = [reqs EXCEPT ![p] = Failed(reqs[p])]
  /\ frame' = [frame EXCEPT ![p].settled = "rejected"]
  /\ pc' = [pc EXCEPT ![p] = "sfrRejected"]
  /\ UNCHANGED <<huskyGPTType, securityRegex, parentMessage, nextId, calls,
                 spinner, result, cursor0, afterReset, lastReset, probe>>

(***************************************************************************)
(* The promise chain of run.                                               *)
(***************************************************************************)
RunThen(p) ==
  /\ pc[p] = "sfrResolved"
  /\ spinner' = [spinner EXCEPT ![p].run.mark = "succeed"]
  /\ result' = [result EXCEPT ![p] = Some(frame[p].messageArray)]
  /\ pc' = [pc EXCEPT ![p] = "finally"]
  /\ UNCHANGED <<huskyGPTType, securityRegex, parentMessage, nextId, calls,
                 frame, reqs, cursor0, afterReset, lastReset, probe>>

\* a catch that hands back what was collected, followed by the sentinel
RunCatchPartial(p) ==
  /\ pc[p] = "sfrRejected"
  /\ spinner' = [spinner EXCEPT ![p].run.mark = "fail"]
  /\ result' = [result EXCEPT ![p] = Some(Append(frame[p].messageArray, failedSentinel))]
  /\ pc' = [pc EXCEPT ![p] = "finally"]
  /\ UNCHANGED <<huskyGPTType, securityRegex, parentMessage, nextId, calls,
                 frame, reqs, cursor0, afterReset, lastReset, probe>>

RunCatch(p) ==
  /\ pc[p] = "sfrRejected"
  /\ spinner' = [spinner EXCEPT ![p].run.mark = "fail"]
  /\ result' = [result EXCEPT ![p] = Some(<<failedSentinel>>)]
  /\ pc' = [pc EXCEPT ![p] = "finally"]
  /\ UNCHANGED <<huskyGPTType, securityRegex, parentMessage, nextId, calls,
                 frame, reqs, cursor0, afterReset, lastReset, probe>>

RunFinally(p) ==
  /\ pc[p] = "finally"
  /\ spinner' = [spinner EXCEPT ![p].run.stopped = TRUE]
  /\ pc' = [pc EXCEPT ![p] = "returned"]
  /\ UNCHANGED <<huskyGPTType, securityRegex, parentMessage, nextId, calls,
                 frame, result, reqs, cursor0, afterReset, lastReset, probe>>

\* a reset that leaves the cursor in place
ResetKeepsCursor ==
  /\ \A p \in Procs : pc[p] \in NotRunning
  /\ calls < MaxCalls
  /\ lastReset' = IF IsSet(parentMessage) \/ lastReset = "cursor"
                    THEN "cursor" ELSE "empty"
  /\ UNCHANGED <<huskyGPTType, securityRegex, parentMessage, nextId, calls, pc,
                 frame, spinner, result, reqs, cursor0, afterReset, probe>>

\* resetParentMessage, called by the driver before a unit; lastReset
\* records whether a cursor was dropped
ResetParentMessage ==
  /\ \A p \in Procs : pc[p] \in NotRunning
  /\ calls < MaxCalls
  /\ parentMessage' = Undefined
  /\ lastReset' = IF IsSet(parentMessage) \/ lastReset = "cursor"
                    THEN "cursor" ELSE "empty"
  /\ UNCHANGED <<huskyGPTType, securityRegex, nextId, calls, pc, frame, spinner,
                 result, reqs, cursor0, afterReset, probe>>

Step(p) ==
  \/ \E fileResult \in FileResults : StartRun(p, fileResult)
  \/ \E text \in ReplyTexts : ReplyBootstrap(p, text)
  \/ \E text \in ReplyTexts : ReplyCode(p, text)
  \/ \E text \in ReplyTexts : ReplyContinue(p, text)
  \/ FailRequest(p)
  \/ RunThen(p)
  \/ RunCatch(p)
  \/ RunFinally(p)

\* the sequential driver: one call at a time
Next == Step(MainCall) \/ ResetParentMessage

Spec == Init /\ [][Next]_vars

(***************************************************************************)
(* SpecLive: the sequential driver, under one configuration, with a remote *)
(* API that answers every request: an awaited api.sendMessage is eventually resolved or rejected  *)
(* (each request carries the 5-minute timeout or is left to the library's  *)
(* own).                                                                   *)
(***************************************************************************)
RemoteAnswers(p) ==
  \/ \E text \in ReplyTexts : ReplyBootstrap(p, text)
  \/ \E text \in ReplyTexts : ReplyCode(p, text)
  \/ \E text \in ReplyTexts : ReplyContinue(p, text)
  \/ FailRequest(p)

\* the client configured for task kind "test" with no security pattern
InitLive ==
  /\ huskyGPTType = "test"
  /\ securityRegex = <<>>
  /\ InitClient
  /\ probe = NoProbe

SpecLive == InitLive /\ [][Next]_vars /\ WF_vars(RemoteAnswers(MainCall))

(***************************************************************************)
(* sendPrompts(prompts): every prompt goes through sendMessage(prompt)     *)
(* with no prevMessage, so it is redacted and sent directly; there is no   *)
(* indicator, and this.parentMessage is neither read nor written.          *)
(***************************************************************************)
PromptLists == {[k \in 1..n |-> CodeUnit(k)] : n \in 0..MaxUnits}

\* sendMessage(prompts[k]) up to its await
SendPrompt(p, fr, log, k) ==
  /\ frame' = [frame EXCEPT ![p] = [fr EXCEPT !.i = k]]
  /\ reqs' = [reqs EXCEPT ![p] =
                Append(log, Request("prompt", k, fr.codePrompts[k],
                                    securityPrompt(securityRegex, fr.codePrompts[k]),
                                    Undefined))]
  /\ pc' = [pc EXCEPT ![p] = "awaitPrompt"]
  /\ UNCHANGED result

\* the loop of sendPrompts from the head of an iteration
LoopPrompts(p, fr, log) ==
  IF fr.i < Len(fr.codePrompts)
    THEN SendPrompt(p, fr, log, fr.i + 1)
    ELSE /\ frame' = [frame EXCEPT ![p] = [fr EXCEPT !.settled = "resolved"]]
         /\ reqs' = [reqs EXCEPT ![p] = log]
         /\ result' = [result EXCEPT ![p] = Some(fr.messageArray)]
         /\ pc' = [pc EXCEPT ![p] = "promptsResolved"]

StartPrompts(p, prompts) ==
  /\ pc[p] \in NotRunning
  /\ calls < MaxCalls
  /\ calls' = calls + 1
  /\ cursor0' = [cursor0 EXCEPT ![p] = parentMessage]
  /\ afterReset' = [afterReset EXCEPT ![p] = lastReset]
  /\ lastReset' = "no"
  /\ spinner' = [spinner EXCEPT ![p] = NoSpinners]
  /\ IF Len(prompts) = 0
       THEN \* if (!prompts.length) return []
            /\ frame' = [frame EXCEPT ![p] = [NoFrame EXCEPT !.settled = "resolved"]]
            /\ reqs' = [reqs EXCEPT ![p] = <<>>]
            /\ result' = [result EXCEPT ![p] = Some(<<>>)]
            /\ pc' = [pc EXCEPT ![p] = "promptsResolved"]
       ELSE /\ SendPrompt(p, [NoFrame EXCEPT !.codePrompts = prompts], <<>>, 1)
            /\ result' = [result EXCEPT ![p] = Undefined]
  /\ UNCHANGED <<huskyGPTType, securityRegex, parentMessage, nextId, probe>>

\* the reply to a prompt of sendPrompts: its text is collected as received
ReplyPrompt(p, text) ==
  /\ pc[p] = "awaitPrompt"
  /\ LET message == RemoteReply(Last(reqs[p]), text)
     IN LoopPrompts(p, [frame[p] EXCEPT !.messageArray = Append(@, message.text)],
                    Replied(reqs[p], message))
  /\ nextId' = nextId + 1
  /\ UNCHANGED <<huskyGPTType, securityRegex, parentMessage, calls, spinner,
                 cursor0, afterReset, lastReset, probe>>

\* api.sendMessage rejects: sendPrompts rejects with it
FailPrompt(p) ==
  /\ pc[p] = "awaitPrompt"
  /\ reqs' = [reqs EXCEPT ![p] = Failed(reqs[p])]
  /\ frame' = [frame EXCEPT ![p].settled = "rejected"]
  /\ pc' = [pc EXCEPT ![p] = "promptsRejected"]
  /\ UNCHANGED <<huskyGPTType, securityRegex, parentMessage, nextId, calls,
                 spinner, result, cursor0, afterReset, lastReset, probe>>

StepPrompts(p) ==
  \/ \E prompts \in PromptLists : StartPrompts(p, prompts)
  \/ \E text \in ReplyTexts : ReplyPrompt(p, text)
  \/ FailPrompt(p)

\* the sequential driver using both entry points
NextPrompts == Next \/ StepPrompts(MainCall)

SpecPrompts == Init /\ [][NextPrompts]_vars

(***************************************************************************)
(* SpecFence: the continuation test of sendMessage applied to every text   *)
(* of at most MaxTextLen characters over backtick, a word character and a  *)
(* blank.                                                                  *)
(***************************************************************************)
FenceAlphabet == {Backtick, "a", " "}

FenceTexts == UNION {[1..n -> FenceAlphabet] : n \in 0..MaxTextLen}

InitFence ==
  /\ huskyGPTType = "review"
  /\ securityRegex = <<>>
  /\ InitClient
  /\ \E t \in FenceTexts : probe = [text |-> t, verdict |-> "none"]

\* lines 121-125 of sendMessage on the reply text probe.text
ProbeFence ==
  /\ probe.verdict = "none"
  /\ probe' = [probe EXCEPT !.verdict =
                 IF needsContinuation(probe.text) THEN "continue" ELSE "return"]
  /\ UNCHANGED <<huskyGPTType, securityRegex, parentMessage, nextId, calls, pc,
                 frame, spinner, result, reqs, cursor0, afterReset, lastReset>>

NextFence == ProbeFence

SpecFence == InitFence /\ [][NextFence]_vars

(***************************************************************************)
(* SpecConc: a driver that does not await run before it calls run again on *)
(* the same client; the calls interleave at their awaits and share         *)
(* this.parentMessage.                                                     *)
(***************************************************************************)
InitConc ==
  /\ huskyGPTType = "test"
  /\ securityRegex = <<>>
  /\ InitClient
  /\ probe = NoProbe

NextConc == \E p \in Procs : Step(p)

SpecConc == InitConc /\ [][NextConc]_vars


(***************************************************************************)
(* Properties.                                                             *)
(***************************************************************************)
\* the calls that have entered sendFileResult
Invoked(p) == pc[p] \in Awaiting \cup {"sfrResolved", "sfrRejected", "finally", "returned"}

\* the number of code-unit prompts of call p
N(p) == Len(frame[p].codePrompts)

\* the requests of call p that carry a parent context
Chained(p) == {j \in 1..Len(reqs[p]) : IsSet(reqs[p][j].options)}

\* the number of backticks that immediately precede position i of s
RECURSIVE RunBefore(_, _)
RunBefore(s, i) ==
  IF i > 1 /\ s[i - 1] = Backtick THEN 1 + RunBefore(s, i - 1) ELSE 0

\* the number of occurrences of the fence marker in s, counted as a text
\* search counts them, without overlap: in a run of n backticks, n \div 3
FenceOccurrences(s) ==
  Cardinality({i \in 1..Len(s) : FenceAt(s, i) /\ RunBefore(s, i) % 3 = 0})

\* C1: within a unit every request but the last has been answered when the
\* next is issued; code-unit prompt k+1 is sent with the conversationId and
\* id of the message sendMessage returned for prompt k; and while the unit
\* is in progress the retained cursor is that last returned message.
SequentialChaining ==
  \A p \in Procs :
    /\ \A j \in 1..(Len(reqs[p]) - 1) : reqs[p][j].status = "ok"
    /\ \A j \in 1..Len(reqs[p]) :
         LET r == reqs[p][j]
         IN (r.kind = "code" /\ r.k > 1) =>
              /\ Len(frame[p].returned) >= r.k - 1
              /\ r.options[1].conversationId = frame[p].returned[r.k - 1].conversationId
              /\ r.options[1].parentMessageId = frame[p].returned[r.k - 1].id
              /\ reqs[p][j - 1].k = r.k - 1
    /\ (pc[p] \in Awaiting /\ Len(frame[p].returned) >= 1) =>
         /\ parentMessage = Some(frame[p].returned[Len(frame[p].returned)])
         /\ frame[p].message = parentMessage

\* C1 witness: the second code-unit prompt has been sent after the first
\* one's reply was continued
SequentialChainingWitness ==
  \E j \in 2..Len(reqs[MainCall]) :
    /\ reqs[MainCall][j].kind = "code"
    /\ reqs[MainCall][j].k = 2
    /\ reqs[MainCall][j - 1].kind = "continue"

\* C2: once a request of a unit has failed it stays the unit's last
\* request, and run returns the sentinel alone.
FailureIsolation ==
  \A p \in Procs :
    \A j \in 1..Len(reqs[p]) :
      reqs[p][j].status = "failed" =>
        /\ j = Len(reqs[p])
        /\ pc[p] \in {"sfrRejected", "finally", "returned"}
        /\ pc[p] \in {"finally", "returned"} => result[p] = Some(<<failedSentinel>>)

\* C2 witness: the second of two code-unit prompts failed in its
\* continuation, after a text was collected for the first
FailureIsolationWitness ==
  /\ pc[MainCall] = "returned"
  /\ Len(reqs[MainCall]) >= 1
  /\ Last(reqs[MainCall]).status = "failed"
  /\ Last(reqs[MainCall]).kind = "continue"
  /\ Len(frame[MainCall].messageArray) >= 1

\* C2 witness of the other case, a failure before the last prompt
FailureBeforeLastPrompt ==
  /\ pc[MainCall] = "returned"
  /\ Len(reqs[MainCall]) >= 1
  /\ Last(reqs[MainCall]).status = "failed"
  /\ Last(reqs[MainCall]).kind = "code"
  /\ Last(reqs[MainCall]).k < N(MainCall)

\* C3: a prompt set of the task prompt alone makes no request and yields
\* the empty message sequence.
EmptyShortCircuit ==
  \A p \in Procs :
    (IsSet(frame[p].promptArray) /\ Len(frame[p].promptArray[1]) = 1) =>
      /\ reqs[p] = <<>>
      /\ frame[p].messageArray = <<>>
      /\ pc[p] \in {"sfrResolved", "finally", "returned"}
      /\ pc[p] \in {"finally", "returned"} => result[p] = Some(<<>>)

\* C3 witness: such a unit returned while a cursor of an earlier unit was
\* retained
EmptyShortCircuitWitness ==
  /\ IsSet(frame[MainCall].promptArray)
  /\ Len(frame[MainCall].promptArray[1]) = 1
  /\ IsSet(cursor0[MainCall])
  /\ pc[MainCall] = "returned"

ContinuationMerge ==
  \A p \in Procs :
    \A j \in 1..Len(reqs[p]) :
      LET r == reqs[p][j]
      IN r.kind = "continue" =>
           /\ j > 1
           /\ reqs[p][j - 1].kind = "code"
           /\ reqs[p][j - 1].status = "ok"
           /\ r.text = continueMessage
           /\ r.options[1].conversationId = reqs[p][j - 1].reply[1].conversationId
           /\ r.options[1].parentMessageId = reqs[p][j - 1].reply[1].id
           /\ r.status = "ok" =>
                /\ Len(frame[p].returned) >= r.k
                /\ frame[p].returned[r.k].text =
                     reqs[p][j - 1].reply[1].text \o r.reply[1].text
                /\ frame[p].returned[r.k].id = r.reply[1].id
                /\ frame[p].returned[r.k].conversationId = r.reply[1].conversationId
                /\ frame[p].messageArray[r.k] = frame[p].returned[r.k].text

\* C5 witness: a continuation was answered with a text other than the
\* first reply's
ContinuationMergeWitness ==
  \E j \in 2..Len(reqs[MainCall]) :
    /\ reqs[MainCall][j].kind = "continue"
    /\ reqs[MainCall][j].status = "ok"
    /\ reqs[MainCall][j].reply[1].text # reqs[MainCall][j - 1].reply[1].text


OverlapsPlaceholder(pat) ==
  \E off \in (1 - Len(pat))..(Len(REMOVED) - 1) :
    \A j \in 1..Len(pat) :
      (off + j) \in 1..Len(REMOVED) => ToLower(pat[j]) = ToLower(REMOVED[off + j])

\* C7 as stated: with a pattern configured no transmitted text, "continue"
\* included, holds a match; without a pattern or a match the text is sent
\* as it is.
RedactionAsStated ==
  \A p \in Procs :
    \A j \in 1..Len(reqs[p]) :
      LET r == reqs[p][j]
      IN /\ securityRegex # <<>> => ~Contains(r.text, securityRegex)
         /\ (securityRegex = <<>> \/ ~Contains(r.prompt, securityRegex)) =>
              r.text = r.prompt

\* C7 amended: a prompt given to sendMessage (task or code-unit prompt) is
\* transmitted with its matches replaced by REMOVED: it is changed iff it
\* holds a match, and what is transmitted holds no match unless the pattern
\* can match over characters of the placeholder; without a pattern or a
\* match it is sent as it is.  A continuation is transmitted as the literal
\* "continue", not redacted.
Redaction ==
  \A p \in Procs :
    \A j \in 1..Len(reqs[p]) :
      LET r == reqs[p][j]
      IN IF r.kind = "continue"
           THEN r.text = continueMessage
           ELSE /\ (securityRegex = <<>> \/ ~Contains(r.prompt, securityRegex)) =>
                     r.text = r.prompt
                /\ (securityRegex # <<>> /\ Contains(r.prompt, securityRegex)) =>
                     /\ r.text # r.prompt
                     /\ Contains(r.text, REMOVED)
                     /\ ~OverlapsPlaceholder(securityRegex) =>
                          ~Contains(r.text, securityRegex)

\* C7 witness: a code-unit prompt with two matches was transmitted free of
\* matches
RedactionWitness ==
  \E j \in 1..Len(reqs[MainCall]) :
    LET r == reqs[MainCall][j]
    IN /\ r.kind = "code"
       /\ securityRegex # <<>>
       /\ ~OverlapsPlaceholder(securityRegex)
       /\ Contains(r.prompt, securityRegex)
       /\ ~Contains(r.text, securityRegex)

\* the code-unit requests of call p whose reply has an odd number of fence
\* markers
OddReplies(p) ==
  {j \in 1..Len(reqs[p]) :
     /\ reqs[p][j].kind = "code"
     /\ reqs[p][j].status = "ok"
     /\ FenceOccurrences(reqs[p][j].reply[1].text) % 2 = 1}

\* the chained requests follow the prompt order: one code request per
\* prompt, a continuation right behind the request it continues
InPromptOrder(p) ==
  /\ \A k \in 1..N(p) :
       Cardinality({j \in Chained(p) : reqs[p][j].kind = "code" /\ reqs[p][j].k = k}) = 1
  /\ \A j \in Chained(p) :
       /\ reqs[p][j].k \in 1..N(p)
       /\ reqs[p][j].kind = "code" => reqs[p][j].prompt = frame[p].codePrompts[reqs[p][j].k]
       /\ reqs[p][j].kind = "continue" =>
            reqs[p][j - 1].kind = "code" /\ reqs[p][j - 1].k = reqs[p][j].k
  /\ \A j1, j2 \in Chained(p) : j1 < j2 => reqs[p][j1].k <= reqs[p][j2].k

\* C8 as stated: a unit of N code-unit prompts processed without failure
\* made N or N+1 chained requests, in prompt order.
RequestCountAsStated ==
  \A p \in Procs :
    frame[p].settled = "resolved" =>
      /\ Cardinality(Chained(p)) \in {N(p), N(p) + 1}
      /\ InPromptOrder(p)

\* C8 amended: such a unit made N + c chained requests, c the number of
\* code-unit replies with an odd fence count (0 <= c <= N), in prompt order.
RequestCount ==
  \A p \in Procs :
    frame[p].settled = "resolved" =>
      /\ Cardinality(Chained(p)) = N(p) + Cardinality(OddReplies(p))
      /\ Cardinality(OddReplies(p)) <= N(p)
      /\ InPromptOrder(p)

\* C8 witness: a unit of two prompts resolved after four chained requests
RequestCountWitness ==
  /\ frame[MainCall].settled = "resolved"
  /\ N(MainCall) = 2
  /\ Cardinality(Chained(MainCall)) = 4

\* C9: a unit with a code-unit prompt starts with the task prompt, sent
\* without parent context, iff no cursor is retained; with a cursor it sends
\* no task prompt and chains its first code-unit prompt to the cursor; and
\* the unit that follows resetParentMessage starts with the task prompt.
BootstrapAndReuse ==
  \A p \in Procs :
    (Invoked(p) /\ N(p) >= 1) =>
      /\ Len(reqs[p]) >= 1
      /\ reqs[p][1].kind = "task" <=> cursor0[p] = Undefined
      /\ reqs[p][1].kind = "task" =>
           /\ reqs[p][1].options = Undefined
           /\ reqs[p][1].prompt = frame[p].promptArray[1][1]
      /\ IsSet(cursor0[p]) =>
           /\ reqs[p][1].kind = "code"
           /\ reqs[p][1].k = 1
           /\ reqs[p][1].options[1].conversationId = cursor0[p][1].conversationId
           /\ reqs[p][1].options[1].parentMessageId = cursor0[p][1].id
      /\ \A j \in 2..Len(reqs[p]) : reqs[p][j].kind # "task"
      /\ afterReset[p] # "no" =>
           reqs[p][1].kind = "task" /\ reqs[p][1].options = Undefined

\* C9 witness: a cursor was retained, resetParentMessage dropped it, and
\* the next unit sent the task prompt and chained its first code-unit
\* prompt to the reply
BootstrapAndReuseWitness ==
  /\ afterReset[MainCall] = "cursor"
  /\ Len(reqs[MainCall]) >= 2
  /\ reqs[MainCall][1].kind = "task"
  /\ reqs[MainCall][2].kind = "code"

\* C9 witness of the other case: the first code-unit prompt chained to a
\* retained cursor
CursorReuseWitness ==
  /\ IsSet(cursor0[MainCall])
  /\ Len(reqs[MainCall]) >= 1
  /\ reqs[MainCall][1].kind = "code"

\* C10: every request carries the 5-minute timeout and an abort signal.
TimeoutOnEveryRequest ==
  \A p \in Procs :
    \A j \in 1..Len(reqs[p]) :
      /\ IsSet(reqs[p][j].options)
      /\ reqs[p][j].options[1].timeoutMs = 300000
      /\ reqs[p][j].options[1].abortSignal

\* what holds in place of C10: the chained requests carry them
TimeoutOnChainedRequests ==
  \A p \in Procs :
    \A j \in 1..Len(reqs[p]) :
      reqs[p][j].kind # "task" =>
        /\ IsSet(reqs[p][j].options)
        /\ reqs[p][j].options[1].timeoutMs = 300000
        /\ reqs[p][j].options[1].abortSignal

\* C11: when two calls of sendFileResult are in progress together, no
\* request of one carries as parent the id of a reply the other obtained
\* (the cursor of each is private to it).
CursorPrivacy ==
  \A p \in Procs : \A q \in Procs \ {p} :
    (pc[p] \in Awaiting /\ pc[q] \in Awaiting) =>
      \A j \in 1..Len(reqs[p]) : \A h \in 1..Len(reqs[q]) :
        (IsSet(reqs[p][j].options) /\ IsSet(reqs[q][h].reply)) =>
          reqs[p][j].options[1].parentMessageId # reqs[q][h].reply[1].id

\* the text of the reply to request j of call p has an odd fence count
OddFence(p, j) ==
  /\ reqs[p][j].status = "ok"
  /\ FenceOccurrences(reqs[p][j].reply[1].text) % 2 = 1

\* request j of call p is followed by a "continue" request
Continued(p, j) == j < Len(reqs[p]) /\ reqs[p][j + 1].kind = "continue"

\* C12 as stated: every reply to a prompt whose text has an odd fence
\* count triggers a continuation, the reply to the task prompt and the
\* replies obtained through sendPrompts included.
ContinuationAfterEveryReply ==
  \A p \in Procs :
    \A j \in 1..Len(reqs[p]) :
      (reqs[p][j].kind # "continue" /\ OddFence(p, j)) => Continued(p, j)

\* C12: the continuation test is made on the replies to code-unit prompts
\* of sendFileResult only: such a reply triggers a continuation exactly
\* when its fence count is odd, while the reply to the task prompt and the
\* replies obtained through sendPrompts never trigger one.
ContinuationOnChainedReplies ==
  \A p \in Procs :
    \A j \in 1..Len(reqs[p]) :
      /\ (reqs[p][j].kind = "code" /\ reqs[p][j].status = "ok") =>
           (Continued(p, j) <=> OddFence(p, j))
      /\ reqs[p][j].kind \in {"task", "prompt", "continue"} => ~Continued(p, j)

\* C12 witness: sendPrompts returned the text of a reply with an odd fence
\* count as it was received, with no request behind it
ContinuationOnChainedRepliesWitness ==
  /\ pc[MainCall] = "promptsResolved"
  /\ Len(reqs[MainCall]) = 2
  /\ reqs[MainCall][1].kind = "prompt" /\ OddFence(MainCall, 1)
  /\ reqs[MainCall][2].kind = "prompt" /\ OddFence(MainCall, 2)
  /\ result[MainCall] = Some(<<reqs[MainCall][1].reply[1].text,
                               reqs[MainCall][2].reply[1].text>>)

\* C12, the other uncontinued reply: a task-prompt reply with an odd fence
\* count was followed by the first code-unit prompt
BootstrapNotContinuedWitness ==
  /\ Len(reqs[MainCall]) >= 2
  /\ reqs[MainCall][1].kind = "task" /\ OddFence(MainCall, 1)
  /\ reqs[MainCall][2].kind = "code"

\* the "continue" requests of call p made for code-unit prompt k
Continuations(p, k) ==
  {j \in 1..Len(reqs[p]) : reqs[p][j].kind = "continue" /\ reqs[p][j].k = k}

\* C13: for each code-unit prompt at most one "continue" is sent, and
\* exactly one once its first reply has an odd fence count; a "continue"
\* follows the reply to the prompt itself, never the reply to a "continue",
\* whatever the fence count of the continuation or of the merged text.
SingleContinuation ==
  \A p \in Procs :
    /\ \A k \in 1..N(p) : Cardinality(Continuations(p, k)) <= 1
    /\ \A j \in 1..Len(reqs[p]) :
         /\ (reqs[p][j].kind = "code" /\ reqs[p][j].status = "ok") =>
              Cardinality(Continuations(p, reqs[p][j].k)) =
                IF OddFence(p, j) THEN 1 ELSE 0
         /\ reqs[p][j].kind = "code" /\ reqs[p][j].status # "ok" =>
              Continuations(p, reqs[p][j].k) = {}
         /\ reqs[p][j].kind = "continue" =>
              /\ reqs[p][j - 1].kind = "code"
              /\ reqs[p][j - 1].k = reqs[p][j].k
              /\ OddFence(p, j - 1)

\* C13 witness: the unit resolved after two continued prompts; the text of
\* the first continuation had an odd fence count itself, and the merged
\* text of the second still had one
SingleContinuationWitness ==
  /\ pc[MainCall] = "sfrResolved"
  /\ Len(reqs[MainCall]) = 5
  /\ reqs[MainCall][3].kind = "continue" /\ OddFence(MainCall, 3)
  /\ reqs[MainCall][5].kind = "continue"
  /\ FenceOccurrences(frame[MainCall].messageArray[2]) % 2 = 1

\* the text received for code-unit prompt k of call p: the text of its
\* reply, followed by the text of the reply to its "continue" if one was sent
ReplyTextFor(p, k) ==
  LET c == CHOOSE j \in 1..Len(reqs[p]) : reqs[p][j].kind = "code" /\ reqs[p][j].k = k
  IN reqs[p][c].reply[1].text \o
       (IF Continued(p, c) THEN reqs[p][c + 1].reply[1].text ELSE <<>>)

\* C14: a unit of N >= 1 code-unit prompts processed without failure
\* returns exactly N texts, the i-th being the (possibly merged) text
\* received for prompt i; the reply to the task prompt is not among them;
\* and the cursor retained is the last reply, the one to prompt N.
OutcomeAggregation ==
  \A p \in Procs :
    (pc[p] \in {"sfrResolved", "finally", "returned"}
       /\ frame[p].settled = "resolved" /\ N(p) >= 1) =>
      /\ Len(frame[p].messageArray) = N(p)
      /\ \A i \in 1..N(p) : frame[p].messageArray[i] = ReplyTextFor(p, i)
      /\ pc[p] \in {"finally", "returned"} => result[p] = Some(frame[p].messageArray)
      /\ lastReset = "no" =>
           /\ IsSet(parentMessage)
           /\ Last(reqs[p]).k = N(p)
           /\ parentMessage[1].id = Last(reqs[p]).reply[1].id
           /\ parentMessage[1].conversationId = Last(reqs[p]).reply[1].conversationId
           /\ parentMessage[1].text = ReplyTextFor(p, N(p))

\* C14 witness: run returned two different texts, the first a merged one,
\* after a task prompt whose reply is not among them
OutcomeAggregationWitness ==
  /\ pc[MainCall] = "returned"
  /\ frame[MainCall].settled = "resolved"
  /\ N(MainCall) = 2
  /\ reqs[MainCall][1].kind = "task"
  /\ reqs[MainCall][3].kind = "continue"
  /\ Len(result[MainCall][1]) = 2
  /\ result[MainCall][1][1] # result[MainCall][1][2]

\* call p entered sendFileResult with an input generatePrompt rejects: no
\* file result, or a task kind without a template
PromptBuilderFails(p) ==
  /\ frame[p].fileResult # <<>>
  /\ \/ frame[p].fileResult[1] = Undefined
     \/ huskyGPTType \notin {"review", "test", "commit"}

\* C15: when generatePrompt fails the unit is aborted (sendFileResult
\* rejects) before any request is issued, and the retained cursor is the
\* one from before the unit.
PromptFailureAborts ==
  \A p \in Procs :
    PromptBuilderFails(p) =>
      /\ reqs[p] = <<>>
      /\ frame[p].settled = "rejected"
      /\ pc[p] \in {"sfrRejected", "finally", "returned"}
      /\ lastReset = "no" => parentMessage = cursor0[p]

\* C15 witness: run was called without a file result on a client that
\* retained a cursor, and returned with the cursor in place
PromptFailureAbortsWitness ==
  /\ pc[MainCall] = "returned"
  /\ huskyGPTType = "test"
  /\ frame[MainCall].fileResult = <<Undefined>>
  /\ IsSet(cursor0[MainCall])
  /\ parentMessage = cursor0[MainCall]

\* C15, the other failure: a task kind without a template
NoTemplateWitness ==
  /\ pc[MainCall] = "returned"
  /\ huskyGPTType = "other"
  /\ frame[MainCall].fileResult # <<>>
  /\ frame[MainCall].fileResult[1] # Undefined
  /\ Len(frame[MainCall].fileResult[1][1].units) = 2

\* C16: when sendMessage is not awaiting a reply, every per-request
\* indicator it started has been marked succeeded or failed, also after
\* the request or its continuation was rejected.
ReviewIndicatorTerminated ==
  \A p \in Procs :
    pc[p] \notin {"awaitCode", "awaitContinue"} =>
      \A i \in 1..Len(spinner[p].review) :
        spinner[p].review[i].started => spinner[p].review[i].mark # "none"

\* what holds in place of C16: the indicators of the requests that were
\* answered are marked; the one of a rejected request stays unmarked
ReviewIndicatorMarkedOnReply ==
  \A p \in Procs :
    /\ Len(spinner[p].review) = Len(frame[p].returned)
                                 + (IF Chained(p) # {} /\ Last(reqs[p]).status # "ok"
                                    THEN 1 ELSE 0)
    /\ \A i \in 1..Len(spinner[p].review) :
         (spinner[p].review[i].mark # "none") <=> i <= Len(frame[p].returned)

\* the last request of call p made for code-unit prompt k
LastRequestFor(p, k) ==
  CHOOSE j \in 1..Len(reqs[p]) :
    /\ reqs[p][j].k = k
    /\ \A h \in (j + 1)..Len(reqs[p]) : reqs[p][h].k # k

\* C17: when a unit failed on code-unit prompt k (or on the task prompt)
\* the retained cursor is the (possibly merged) reply to prompt k-1 of the
\* unit if k > 1, and the cursor from before the unit otherwise; the reply
\* to the task prompt is never the retained cursor, which at any time is
\* the cursor from before the unit or the reply that ended the sending of
\* one of its code-unit prompts.
CursorAfterFailure ==
  \A p \in Procs :
    (frame[p].fileResult # <<>> /\ lastReset = "no") =>
      /\ (reqs[p] # <<>> /\ Last(reqs[p]).status = "failed") =>
           LET k == Last(reqs[p]).k
           IN IF k <= 1
                THEN parentMessage = cursor0[p]
                ELSE /\ IsSet(parentMessage)
                     /\ parentMessage[1].id = reqs[p][LastRequestFor(p, k - 1)].reply[1].id
                     /\ parentMessage[1].text = ReplyTextFor(p, k - 1)
      /\ \/ parentMessage = cursor0[p]
         \/ \E j \in 1..Len(reqs[p]) :
              /\ reqs[p][j].kind \in {"code", "continue"}
              /\ reqs[p][j].status = "ok"
              /\ parentMessage[1].id = reqs[p][j].reply[1].id
      /\ \A j \in 1..Len(reqs[p]) :
           (reqs[p][j].kind = "task" /\ reqs[p][j].status = "ok" /\ IsSet(parentMessage)) =>
             parentMessage[1].id # reqs[p][j].reply[1].id

\* C17 witness: a unit on a new client failed on its first code-unit
\* prompt after the task prompt was answered, and no cursor is retained
CursorAfterFailureWitness ==
  /\ pc[MainCall] = "sfrRejected"
  /\ cursor0[MainCall] = Undefined
  /\ Len(reqs[MainCall]) = 2
  /\ reqs[MainCall][1].status = "ok"
  /\ reqs[MainCall][2].kind = "code" /\ reqs[MainCall][2].status = "failed"
  /\ parentMessage = Undefined

\* C17, the case k > 1: the unit failed on its second prompt and the reply
\* to the first, a merged one, is retained
CursorAfterLaterFailureWitness ==
  /\ pc[MainCall] = "returned"
  /\ Len(reqs[MainCall]) = 4
  /\ reqs[MainCall][3].kind = "continue"
  /\ reqs[MainCall][4].k = 2 /\ reqs[MainCall][4].status = "failed"
  /\ IsSet(parentMessage)
  /\ parentMessage[1].id = reqs[MainCall][3].reply[1].id

\* C18: with a remote API that answers every request, a call of
\* sendFileResult that awaits a reply eventually completes (resolves or
\* rejects), and at no time has a call for N code-unit prompts issued more
\* than 1 + 2N requests.
BoundedTermination ==
  /\ [](\A p \in Procs : Len(reqs[p]) <= 1 + 2 * N(p))
  /\ \A p \in Procs :
       (pc[p] \in Awaiting) ~> (pc[p] \in {"sfrResolved", "sfrRejected"})

\* C18 witness: a call for two code-unit prompts completed after the
\* largest number of requests, the task prompt and a continuation for each
\* of the two
BoundedTerminationWitness ==
  /\ pc[MainCall] = "sfrResolved"
  /\ N(MainCall) = 2
  /\ Len(reqs[MainCall]) = 1 + 2 * N(MainCall)
  /\ reqs[MainCall][1].kind = "task"

====
